---- MODULE Spec2Model ----
(***************************************************************************)
(* adf-guardian: the rule-evaluation engine (src/engine) as a state        *)
(* machine.  Strings that the code inspects byte by byte or char by char   *)
(* (folder names, JSON string values, regex patterns) are sequences of     *)
(* UTF-8 bytes; strings the code only compares or copies (rule ids,        *)
(* descriptions, target expressions, guard names, object keys) are TLA+    *)
(* strings.                                                                *)
(***************************************************************************)
EXTENDS Integers, Sequences, FiniteSets, TLC

\* ------------------------------------------------------------------------
\* Option<T>
\* ------------------------------------------------------------------------
None == [t |-> "None"]
Some(x) == [t |-> "Some", v |-> x]
is_none(opt) == opt.t = "None"
unwrap_or(opt, default) == IF opt.t = "Some" THEN opt.v ELSE default

\* ------------------------------------------------------------------------
\* serde_json::Value
\* ------------------------------------------------------------------------
JNull == [t |-> "null"]
JBool(b) == [t |-> "bool", b |-> b]
JStr(s) == [t |-> "string", s |-> s]
\* A JSON number keeps the representation serde_json parsed it into:
\* PosInt (u64), NegInt (i64) or Float (f64).  Its value is
\* hi * 2^53 + num/den, with hi in {0, 1}, |num/den| < 2^53 and, when
\* hi = 1, num >= 0: integers from 2^53 on are written as an offset, since
\* from there on an f64 no longer holds every integer.
JInt(n) == [t |-> "number", repr |-> IF n >= 0 THEN "PosInt" ELSE "NegInt",
            hi |-> 0, num |-> n, den |-> 1]
JFloat(n, d) == [t |-> "number", repr |-> "Float", hi |-> 0, num |-> n, den |-> d]
\* The u64 2^53 + k.
JBig(k) == [t |-> "number", repr |-> "PosInt", hi |-> 1, num |-> k, den |-> 1]
JArr(a) == [t |-> "array", a |-> a]
JObj(o) == [t |-> "object", o |-> o]
EmptyObj == JObj(<<>>)

\* Value::get(key): Some(member) of an object that has the key.
get(v, key) ==
    IF v.t = "object" /\ key \in DOMAIN v.o THEN Some(v.o[key]) ELSE None

\* Option<&Value>::and_then(Value::as_xxx)
as_str(v) == IF v.t = "string" THEN Some(v.s) ELSE None
as_bool(v) == IF v.t = "bool" THEN Some(v.b) ELSE None
as_array(v) == IF v.t = "array" THEN Some(v.a) ELSE None
\* u64 as f64: an integer of [2^53, 2^54) is rounded to the nearest multiple
\* of 2, a tie to the one whose mantissa is even; below 2^53 it is exact.
RoundTiesEven(k) ==
    IF k % 2 = 0 THEN k
    ELSE IF (k \div 2) % 2 = 0 THEN k - 1 ELSE k + 1
as_f64(v) ==
    IF v.t = "number"
    THEN Some([hi |-> v.hi,
               num |-> IF v.hi = 1 THEN RoundTiesEven(v.num) ELSE v.num,
               den |-> v.den])
    ELSE None
as_u64(v) ==
    IF v.t = "number" /\ v.repr = "PosInt"
    THEN Some([hi |-> v.hi, num |-> v.num])
    ELSE None
is_null(v) == v.t = "null"

get_str(params, key) ==
    LET o == get(params, key) IN IF is_none(o) THEN None ELSE as_str(o.v)
get_bool(params, key) ==
    LET o == get(params, key) IN IF is_none(o) THEN None ELSE as_bool(o.v)
get_array(params, key) ==
    LET o == get(params, key) IN IF is_none(o) THEN None ELSE as_array(o.v)
get_f64(params, key) ==
    LET o == get(params, key) IN IF is_none(o) THEN None ELSE as_f64(o.v)
get_u64(params, key) ==
    LET o == get(params, key) IN IF is_none(o) THEN None ELSE as_u64(o.v)

\* f64 comparison of two values hi * 2^53 + num/den (den > 0).
F64Ge(a, b) == IF a.hi # b.hi THEN a.hi > b.hi ELSE a.num * b.den >= b.num * a.den
F64Le(a, b) == IF a.hi # b.hi THEN a.hi < b.hi ELSE a.num * b.den <= b.num * a.den

\* `len as u64` of a usize, and u64 comparison.
len_as_u64(len) == [hi |-> 0, num |-> len]
U64Ge(a, b) == IF a.hi # b.hi THEN a.hi > b.hi ELSE a.num >= b.num
U64Le(a, b) == IF a.hi # b.hi THEN a.hi < b.hi ELSE a.num <= b.num

\* ------------------------------------------------------------------------
\* str helpers on UTF-8 byte sequences
\* ------------------------------------------------------------------------
\* u8::to_ascii_lowercase: only the bytes of 'A'..'Z' change.
to_ascii_lowercase(b) == IF b \in 65..90 THEN b + 32 ELSE b

\* Mutant of eq_ignore_ascii_case: plain equality.
eq_case_sensitive(a, b) == a = b

\* str::eq_ignore_ascii_case
eq_ignore_ascii_case(a, b) ==
    /\ Len(a) = Len(b)
    /\ \A i \in 1..Len(a) : to_ascii_lowercase(a[i]) = to_ascii_lowercase(b[i])

\* str::chars().count(): every byte that is not a UTF-8 continuation byte
\* (0b10xxxxxx) starts one char.
chars_count(s) == Cardinality({i \in 1..Len(s) : s[i] \notin 128..191})

\* ------------------------------------------------------------------------
\* regex::Regex, for the pattern syntax the rules here use: an optional
\* leading '^' followed by literal bytes; an unclosed '(' does not compile.
\* ------------------------------------------------------------------------
RegexNew(pattern) ==
    IF \E i \in 1..Len(pattern) : pattern[i] = 40
    THEN [t |-> "Err"]
    ELSE IF Len(pattern) > 0 /\ pattern[1] = 94
         THEN [t |-> "Ok", anchored |-> TRUE, lit |-> Tail(pattern)]
         ELSE [t |-> "Ok", anchored |-> FALSE, lit |-> pattern]

RegexIsMatch(re, text) ==
    LET n == Len(re.lit)
        At(k) == /\ k + n <= Len(text)
                 /\ \A j \in 1..n : text[k + j] = re.lit[j]
    IN IF re.anchored THEN At(0) ELSE \E k \in 0..Len(text) : At(k)

\* ------------------------------------------------------------------------
\* engine/guards.rs
\* ------------------------------------------------------------------------
check_pattern_match(node, params) ==
    LET regex_str == get_str(params, "regex")
        negative == unwrap_or(get_bool(params, "negative"), FALSE)
        text == as_str(node)
    IN IF text.t = "Some" /\ regex_str.t = "Some"
       THEN LET re == RegexNew(regex_str.v)
            IN IF re.t = "Ok"
               THEN LET is_match == RegexIsMatch(re, text.v)
                    IN IF negative THEN ~is_match ELSE is_match
               ELSE FALSE
       ELSE FALSE

\* Mutant of check_allowed_values: the mode is applied to a value that is not
\* a string too, so Deny lets it pass.
check_allowed_values_deny_open(node, params) ==
    LET values == get_array(params, "values")
        mode == unwrap_or(get_str(params, "mode"), <<65, 108, 108, 111, 119>>)
        case_sensitive == unwrap_or(get_bool(params, "case_sensitive"), TRUE)
        node_str == as_str(node)
        found == /\ node_str.t = "Some" /\ values.t = "Some"
                 /\ \E i \in 1..Len(values.v) :
                       LET v_str == as_str(values.v[i])
                       IN /\ v_str.t = "Some"
                          /\ IF case_sensitive THEN v_str.v = node_str.v
                             ELSE eq_ignore_ascii_case(v_str.v, node_str.v)
    IN IF mode = <<68, 101, 110, 121>> THEN ~found ELSE found

\* Mutant of check_allowed_values: the mode is not looked at, Deny works as
\* Allow does.
check_allowed_values_mode_ignored(node, params) ==
    LET values == get_array(params, "values")
        case_sensitive == unwrap_or(get_bool(params, "case_sensitive"), TRUE)
        node_str == as_str(node)
    IN /\ node_str.t = "Some" /\ values.t = "Some"
       /\ \E i \in 1..Len(values.v) :
             LET v_str == as_str(values.v[i])
             IN /\ v_str.t = "Some"
                /\ IF case_sensitive THEN v_str.v = node_str.v
                   ELSE eq_ignore_ascii_case(v_str.v, node_str.v)

check_allowed_values(node, params) ==
    LET values == get_array(params, "values")
        mode == unwrap_or(get_str(params, "mode"), <<65, 108, 108, 111, 119>>)
        case_sensitive == unwrap_or(get_bool(params, "case_sensitive"), TRUE)
        node_str == as_str(node)
    IN IF node_str.t = "Some" /\ values.t = "Some"
       THEN LET text == node_str.v
                list == values.v
                found == \E i \in 1..Len(list) :
                            LET v_str == as_str(list[i])
                            IN IF v_str.t = "Some"
                               THEN IF case_sensitive
                                    THEN v_str.v = text
                                    ELSE eq_ignore_ascii_case(v_str.v, text)
                               ELSE FALSE
            IN IF mode = <<68, 101, 110, 121>> THEN ~found ELSE found
       ELSE FALSE

check_exists(node, params) ==
    LET should_exist == unwrap_or(get_bool(params, "should_exist"), TRUE)
    IN IF should_exist THEN ~is_null(node) ELSE is_null(node)

check_range(node, params) ==
    LET min == get_f64(params, "min")
        max == get_f64(params, "max")
        val == as_f64(node)
    IN IF val.t = "Some"
       THEN LET min_ok == is_none(min) \/ F64Ge(val.v, min.v)
                max_ok == is_none(max) \/ F64Le(val.v, max.v)
            IN min_ok /\ max_ok
       ELSE FALSE

check_count(node, params) ==
    LET min == get_u64(params, "min")
        max == get_u64(params, "max")
        arr == as_array(node)
    IN IF arr.t = "Some"
       THEN LET len == len_as_u64(Len(arr.v))
                min_ok == is_none(min) \/ U64Ge(len, min.v)
                max_ok == is_none(max) \/ U64Le(len, max.v)
            IN min_ok /\ max_ok
       ELSE FALSE

check_string_length(node, params) ==
    LET min == get_u64(params, "min")
        max == get_u64(params, "max")
        s == as_str(node)
    IN IF s.t = "Some"
       THEN LET len == len_as_u64(chars_count(s.v))
                min_ok == is_none(min) \/ U64Ge(len, min.v)
                max_ok == is_none(max) \/ U64Le(len, max.v)
            IN min_ok /\ max_ok
       ELSE FALSE

\* ------------------------------------------------------------------------
\* serde_json's Display for Value (compact JSON text), as UTF-8 bytes.
\* Values located in the documents of this model are scalars and arrays.
\* ------------------------------------------------------------------------
RECURSIVE ToDecimal(_)
ToDecimal(n) == IF n < 10 THEN <<48 + n>> ELSE ToDecimal(n \div 10) \o <<48 + (n % 10)>>

RECURSIVE EscapeJson(_)
EscapeJson(s) ==
    IF s = <<>> THEN <<>>
    ELSE (IF Head(s) \in {34, 92} THEN <<92, Head(s)>> ELSE <<Head(s)>>)
         \o EscapeJson(Tail(s))

\* 2^53 = 9007199254740992, as two groups of eight decimal digits.
P53High == 90071992
P53Low == 54740992
Pad8(digits) == [i \in 1..(8 - Len(digits)) |-> 48] \o digits

NumberText(v) ==
    LET abs == IF v.num < 0 THEN -v.num ELSE v.num
        sign == IF v.num < 0 THEN <<45>> ELSE <<>>
    IN IF v.repr = "Float"
       THEN sign \o ToDecimal(abs \div v.den) \o <<46>>
                 \o ToDecimal(((abs % v.den) * 10) \div v.den)
       ELSE IF v.hi = 1
       THEN ToDecimal(P53High + (P53Low + v.num) \div 100000000)
            \o Pad8(ToDecimal((P53Low + v.num) % 100000000))
       ELSE sign \o ToDecimal(abs)

RECURSIVE ValueToString(_)
ValueToString(v) ==
    CASE v.t = "null" -> <<110, 117, 108, 108>>
      [] v.t = "bool" -> IF v.b THEN <<116, 114, 117, 101>>
                                ELSE <<102, 97, 108, 115, 101>>
      [] v.t = "number" -> NumberText(v)
      [] v.t = "string" -> <<34>> \o EscapeJson(v.s) \o <<34>>
      [] v.t = "array" ->
            LET RECURSIVE Items(_)
                Items(i) == IF i > Len(v.a) THEN <<>>
                            ELSE (IF i > 1 THEN <<44>> ELSE <<>>)
                                 \o ValueToString(v.a[i]) \o Items(i + 1)
            IN <<91>> \o Items(1) \o <<93>>

\* engine/formatter.rs
format_actual_value(guard, actual_value) ==
    IF guard = "Count"
    THEN LET arr == as_array(actual_value)
         IN IF arr.t = "Some" THEN ToDecimal(Len(arr.v)) ELSE <<48>>
    ELSE ValueToString(actual_value)

\* ------------------------------------------------------------------------
\* serde_json_path::JsonPath, for the target expressions the rules here
\* use.  A parsed path is a sequence of segments: a member name or the
\* wildcard [*].
\* ------------------------------------------------------------------------
Child(k) == [seg |-> "name", key |-> k]
Wild == [seg |-> "wildcard"]

JsonPathParse(target) ==
    CASE target = "$.name" -> [t |-> "Ok", p |-> <<Child("name")>>]
      [] target = "$.properties.type" ->
            [t |-> "Ok", p |-> <<Child("properties"), Child("type")>>]
      [] target = "$.items" -> [t |-> "Ok", p |-> <<Child("items")>>]
      [] target = "$.items[*]" -> [t |-> "Ok", p |-> <<Child("items"), Wild>>]
      [] target = "$.missing" -> [t |-> "Ok", p |-> <<Child("missing")>>]
      [] target = "$[" -> [t |-> "Err"]

\* One segment applied to one node: the located children, in document order.
SegmentQuery(seg, node) ==
    IF seg.seg = "name"
    THEN IF node.t = "object" /\ seg.key \in DOMAIN node.o
         THEN <<node.o[seg.key]>> ELSE <<>>
    ELSE IF node.t = "array" THEN node.a ELSE <<>>

RECURSIVE FlatMapSegment(_, _)
FlatMapSegment(seg, nodes) ==
    IF nodes = <<>> THEN <<>>
    ELSE SegmentQuery(seg, Head(nodes)) \o FlatMapSegment(seg, Tail(nodes))

RECURSIVE QueryFrom(_, _)
QueryFrom(p, nodes) ==
    IF p = <<>> THEN nodes ELSE QueryFrom(Tail(p), FlatMapSegment(Head(p), nodes))

\* JsonPath::query(root): the located nodes in match order.
JsonPathQuery(p, root) == QueryFrom(p, <<root>>)

\* ------------------------------------------------------------------------
\* std::path::Path: a path is its sequence of components (UTF-8 bytes each);
\* "." is <<46>> and ".." is <<46, 46>>.
\* ------------------------------------------------------------------------
CurDir == <<46>>
ParentDir == <<46, 46>>

path_parent(p) == IF p = <<>> THEN None ELSE Some(SubSeq(p, 1, Len(p) - 1))
path_file_name(p) ==
    IF p = <<>> \/ p[Len(p)] \in {CurDir, ParentDir} THEN None ELSE Some(p[Len(p)])

RECURSIVE to_string_lossy(_)
to_string_lossy(p) ==
    IF p = <<>> THEN <<>>
    ELSE IF Len(p) = 1 THEN p[1]
    ELSE p[1] \o <<47>> \o to_string_lossy(Tail(p))

\* ------------------------------------------------------------------------
\* engine/mod.rs.  An operation that writes to stderr returns
\* [ret |-> its value, log |-> the warnings it printed, in order].
\* ------------------------------------------------------------------------
WarnUnknownGuard(guard) == [w |-> "Unknown guard", what |-> guard]
WarnJsonPath(target, id) == [w |-> "Could not parse JSONPath", what |-> target, rule |-> id]

\* Mutant of check_guard: an unknown guard name fails closed.
check_guard_closed(node, guard, params) ==
    CASE guard = "PatternMatch" ->
            [ret |-> check_pattern_match(node, params), log |-> <<>>]
      [] guard = "AllowedValues" ->
            [ret |-> check_allowed_values(node, params), log |-> <<>>]
      [] guard = "Exists" -> [ret |-> check_exists(node, params), log |-> <<>>]
      [] guard = "Range" -> [ret |-> check_range(node, params), log |-> <<>>]
      [] guard = "Count" -> [ret |-> check_count(node, params), log |-> <<>>]
      [] guard = "StringLength" ->
            [ret |-> check_string_length(node, params), log |-> <<>>]
      [] OTHER -> [ret |-> FALSE, log |-> <<WarnUnknownGuard(guard)>>]

check_guard(node, guard, params) ==
    CASE guard = "PatternMatch" ->
            [ret |-> check_pattern_match(node, params), log |-> <<>>]
      [] guard = "AllowedValues" ->
            [ret |-> check_allowed_values(node, params), log |-> <<>>]
      [] guard = "Exists" -> [ret |-> check_exists(node, params), log |-> <<>>]
      [] guard = "Range" -> [ret |-> check_range(node, params), log |-> <<>>]
      [] guard = "Count" -> [ret |-> check_count(node, params), log |-> <<>>]
      [] guard = "StringLength" ->
            [ret |-> check_string_length(node, params), log |-> <<>>]
      [] OTHER -> [ret |-> TRUE, log |-> <<WarnUnknownGuard(guard)>>]

\* The warnings of check_guard on nodes[i..n], in order.
RECURSIVE GuardLogs(_, _, _, _, _)
GuardLogs(nodes, i, n, guard, params) ==
    IF i > n THEN <<>>
    ELSE check_guard(nodes[i], guard, params).log \o GuardLogs(nodes, i + 1, n, guard, params)

\* Mutant of IterAll: Iterator::any, one passing node is enough.
IterAny(nodes, guard, params) ==
    LET accepted == {i \in 1..Len(nodes) : check_guard(nodes[i], guard, params).ret}
        last == IF accepted = {} THEN Len(nodes)
                ELSE CHOOSE i \in accepted : \A j \in accepted : i <= j
    IN [ret |-> accepted # {}, log |-> GuardLogs(nodes, 1, last, guard, params)]

\* Iterator::all(check_guard): the guard runs on the nodes in order up to and
\* including the first one it rejects.
IterAll(nodes, guard, params) ==
    LET rejected == {i \in 1..Len(nodes) : ~check_guard(nodes[i], guard, params).ret}
        last == IF rejected = {} THEN Len(nodes)
                ELSE CHOOSE i \in rejected : \A j \in rejected : i <= j
    IN [ret |-> rejected = {}, log |-> GuardLogs(nodes, 1, last, guard, params)]

\* Mutants of evaluate_condition: no emptiness test (all() of nothing is true);
\* an unparseable precondition target taken as met.
evaluate_condition_vacuous(validation, root) ==
    LET path == JsonPathParse(validation.target)
    IN IF path.t = "Err" THEN [ret |-> FALSE, log |-> <<>>]
       ELSE IterAll(JsonPathQuery(path.p, root), validation.guard, validation.params)

evaluate_condition_parse_open(validation, root) ==
    LET path == JsonPathParse(validation.target)
    IN IF path.t = "Err" THEN [ret |-> TRUE, log |-> <<>>]
       ELSE LET nodes == JsonPathQuery(path.p, root)
            IN IF nodes = <<>> THEN [ret |-> FALSE, log |-> <<>>]
               ELSE IterAll(nodes, validation.guard, validation.params)

evaluate_condition(validation, root) ==
    LET path == JsonPathParse(validation.target)
    IN IF path.t = "Err" THEN [ret |-> FALSE, log |-> <<>>]
       ELSE LET nodes == JsonPathQuery(path.p, root)
            IN IF nodes = <<>> THEN [ret |-> FALSE, log |-> <<>>]
               ELSE IterAll(nodes, validation.guard, validation.params)

Violation(rule, file_path, node) ==
    [rule_id |-> rule.id,
     file |-> to_string_lossy(file_path),
     message |-> unwrap_or(rule.description, "Rule violation"),
     severity |-> rule.severity,
     actual_value |-> Some(format_actual_value(rule.validate.guard, node))]

\* What a function does, in program order: each warning it prints and each
\* Violation it yields.
Printed(w) == [e |-> "warning", x |-> w]
Yielded(v) == [e |-> "violation", x |-> v]
Unwrap(events) == [i \in 1..Len(events) |-> events[i].x]
Warnings(events) == Unwrap(SelectSeq(events, LAMBDA ev : ev.e = "warning"))
Violations(events) == Unwrap(SelectSeq(events, LAMBDA ev : ev.e = "violation"))
PrintedAll(log) == [i \in 1..Len(log) |-> Printed(log[i])]

\* Mutant of FilterMapFrom: the Violations come out last node first.
RECURSIVE FilterMapFromReversed(_, _, _, _)
FilterMapFromReversed(nodes, i, rule, file_path) ==
    IF i > Len(nodes) THEN <<>>
    ELSE LET g == check_guard(nodes[i], rule.validate.guard, rule.validate.params)
         IN FilterMapFromReversed(nodes, i + 1, rule, file_path)
            \o PrintedAll(g.log)
            \o (IF g.ret THEN <<>> ELSE <<Yielded(Violation(rule, file_path, nodes[i]))>>)

\* nodes.iter().filter(!check_guard).map(Violation) over nodes[i..]
RECURSIVE FilterMapFrom(_, _, _, _)
FilterMapFrom(nodes, i, rule, file_path) ==
    IF i > Len(nodes) THEN <<>>
    ELSE LET g == check_guard(nodes[i], rule.validate.guard, rule.validate.params)
         IN PrintedAll(g.log)
            \o (IF g.ret THEN <<>> ELSE <<Yielded(Violation(rule, file_path, nodes[i]))>>)
            \o FilterMapFrom(nodes, i + 1, rule, file_path)

CheckRuleEvents(rule, root, file_path) ==
    LET cond == IF rule.when.t = "Some" THEN evaluate_condition(rule.when.v, root)
                ELSE [ret |-> TRUE, log |-> <<>>]
    IN PrintedAll(cond.log) \o
       (IF ~cond.ret THEN <<>>
        ELSE LET path == JsonPathParse(rule.validate.target)
             IN IF path.t = "Err"
                THEN <<Printed(WarnJsonPath(rule.validate.target, rule.id))>>
                ELSE FilterMapFrom(JsonPathQuery(path.p, root), 1, rule, file_path))

check_rule(rule, root, file_path) ==
    LET events == CheckRuleEvents(rule, root, file_path)
    IN [ret |-> Violations(events), log |-> Warnings(events)]

matches_asset_type(matcher, file_path) ==
    LET p == path_parent(file_path)
        parent == IF is_none(p) THEN None ELSE path_file_name(p.v)
    IN IF parent.t = "Some"
       THEN LET folder_name == parent.v
            IN IF matcher.t = "Single"
               THEN eq_ignore_ascii_case(folder_name, matcher.s)
               ELSE \E i \in 1..Len(matcher.list) :
                       eq_ignore_ascii_case(folder_name, matcher.list[i])
       ELSE FALSE

\* ------------------------------------------------------------------------
\* Bounds
\* ------------------------------------------------------------------------
MaxItems == 2      \* longest "items" array of a document handed to check_rule
MaxRules == 2      \* most rules in a ruleset handed to run
MaxFiles == 2      \* most artifacts the scanner discovers
NumWorkers == 2    \* threads of the rayon pool

Workers == 1..NumWorkers

\* ------------------------------------------------------------------------
\* Byte strings used by the inputs
\* ------------------------------------------------------------------------
B_pl_a == <<112, 108, 95, 97>>                              \* pl_a
B_bad == <<98, 97, 100>>                                    \* bad
B_re_pl == <<94, 112, 108, 95>>                             \* ^pl_
B_re_invalid == <<40>>                                      \* (
B_Deny == <<68, 101, 110, 121>>                             \* Deny
B_pipeline == <<112, 105, 112, 101, 108, 105, 110, 101>>    \* pipeline
B_Pipeline == <<80, 105, 112, 101, 108, 105, 110, 101>>     \* Pipeline
B_dataset == <<100, 97, 116, 97, 115, 101, 116>>            \* dataset
B_DATASET == <<68, 65, 84, 65, 83, 69, 84>>                 \* DATASET
B_e_acute == <<195, 169>>                                   \* e-acute, lower case
B_E_acute == <<195, 137>>                                   \* E-acute, upper case
B_json(c) == <<c, 46, 106, 115, 111, 110>>                  \* <c>.json

\* ------------------------------------------------------------------------
\* Inputs of check_rule: rules (config.rs Rule, Validation) and documents
\* ------------------------------------------------------------------------
Validation(target, guard, params) ==
    [target |-> target, guard |-> guard, params |-> params]

Targets == {"$.items[*]", "$.items", "$.missing", "$["}

\* One parameter object per guard, used by preconditions and main checks.
BaseGuardCases ==
    { <<"PatternMatch", JObj([regex |-> JStr(B_re_pl)])>>,
      <<"PatternMatch", JObj([regex |-> JStr(B_re_pl), negative |-> JBool(TRUE)])>>,
      <<"AllowedValues", JObj([values |-> JArr(<<JStr(B_pl_a)>>)])>>,
      <<"AllowedValues", JObj([values |-> JArr(<<JStr(B_pl_a)>>), mode |-> JStr(B_Deny)])>>,
      <<"Exists", EmptyObj>>,
      <<"Range", JObj([min |-> JInt(1), max |-> JInt(5)])>>,
      <<"Count", JObj([min |-> JInt(1)])>>,
      <<"StringLength", JObj([min |-> JInt(4)])>>,
      <<"Unknown", EmptyObj>> }

\* Further parameter objects, used by main checks.
MoreGuardCases ==
    { <<"PatternMatch", JObj([regex |-> JStr(B_re_invalid)])>>,
      <<"Exists", JObj([should_exist |-> JBool(FALSE)])>>,
      <<"Range", EmptyObj>>,
      <<"Count", EmptyObj>>,
      <<"StringLength", EmptyObj>>,
      <<"exists", EmptyObj>> }

WhenValidations ==
    {Validation(t, g[1], g[2]) : t \in Targets, g \in BaseGuardCases}
MainValidations ==
    {Validation(t, g[1], g[2]) : t \in Targets, g \in BaseGuardCases \cup MoreGuardCases}

Labels == { [description |-> None, severity |-> "Error"],
            [description |-> Some("desc"), severity |-> "Warning"] }

MkRule(id, asset, label, when, validate) ==
    [id |-> id, asset |-> asset, description |-> label.description,
     severity |-> label.severity, when |-> when, validate |-> validate]

Single(s) == [t |-> "Single", s |-> s]
List(l) == [t |-> "List", list |-> l]

UnitRules ==
    {MkRule("rule", Single(B_pipeline), l, w, v) :
        l \in Labels,
        w \in {None} \cup {Some(c) : c \in WhenValidations},
        v \in MainValidations}

ElemValues == {JStr(B_pl_a), JStr(B_bad), JInt(3), JNull}

RECURSIVE SeqsUpTo(_, _)
SeqsUpTo(S, n) ==
    IF n = 0 THEN {<<>>}
    ELSE LET shorter == SeqsUpTo(S, n - 1)
         IN shorter \cup {Append(q, e) : q \in {r \in shorter : Len(r) = n - 1}, e \in S}

Document(name, items) ==
    JObj([name |-> JStr(name),
          properties |-> JObj([type |-> JStr(B_pl_a)]),
          items |-> JArr(items)])

UnitDocuments == {Document(B_bad, items) : items \in SeqsUpTo(ElemValues, MaxItems)}

UnitPath == <<CurDir, B_pipeline, B_json(97)>>

\* ------------------------------------------------------------------------
\* Inputs of run: a ruleset (config.rs Config) and the artifacts on disk
\* ------------------------------------------------------------------------
RunRules ==
    << \* every item must start with pl_
      MkRule("r1", Single(B_pipeline),
             [description |-> None, severity |-> "Error"], None,
             Validation("$.items[*]", "PatternMatch", JObj([regex |-> JStr(B_re_pl)]))),
      \* every item is a string of at least 4 chars
      MkRule("r2", List(<<B_dataset, B_Pipeline>>),
             [description |-> Some("desc"), severity |-> "Warning"], None,
             Validation("$.items[*]", "StringLength", JObj([min |-> JInt(4)]))),
      \* no name allowed; folder name given in lower case, non-ASCII
      MkRule("r3", Single(B_e_acute),
             [description |-> None, severity |-> "Error"], None,
             Validation("$.name", "Exists", JObj([should_exist |-> JBool(FALSE)]))),
      \* main target does not parse
      MkRule("r4", Single(B_pipeline),
             [description |-> None, severity |-> "Error"], None,
             Validation("$[", "Exists", JObj([should_exist |-> JBool(FALSE)]))),
      \* precondition target does not parse
      MkRule("r5", List(<<B_pipeline, B_dataset>>),
             [description |-> None, severity |-> "Error"],
             Some(Validation("$[", "Exists", EmptyObj)),
             Validation("$.name", "Exists", JObj([should_exist |-> JBool(FALSE)]))),
      \* precondition not met and main target does not parse
      MkRule("r6", Single(B_pipeline),
             [description |-> None, severity |-> "Error"],
             Some(Validation("$.missing", "Exists", EmptyObj)),
             Validation("$[", "Exists", EmptyObj)) >>

\* The subsequence of seq at the positions in S, from position i on.
RECURSIVE Pick(_, _, _)
Pick(seq, S, i) ==
    IF i > Len(seq) THEN <<>>
    ELSE (IF i \in S THEN <<seq[i]>> ELSE <<>>) \o Pick(seq, S, i + 1)

UpTo(seq, n) == {Pick(seq, S, 1) : S \in {T \in SUBSET (1..Len(seq)) : Cardinality(T) <= n}}

\* Rulesets: up to MaxRules of the rules above, in that order.
Configs == UpTo(RunRules, MaxRules)

Readable(path, value) == [path |-> path, open |-> "Ok", json |-> [t |-> "Ok", v |-> value]]
InvalidJson(path) == [path |-> path, open |-> "Ok", json |-> [t |-> "Err"]]
Unreadable(path) == [path |-> path, open |-> "Err", json |-> [t |-> "Err"]]

\* The project tree, in the order the scanner walks it.
Tree ==
    << Readable(<<CurDir, B_pipeline, B_json(97)>>,
                Document(B_bad, <<JStr(B_pl_a), JStr(B_bad), JInt(3)>>)),
       Readable(<<CurDir, B_DATASET, B_json(98)>>,
                Document(B_pl_a, <<JStr(B_bad)>>)),
       Unreadable(<<CurDir, B_pipeline, B_json(99)>>),
       InvalidJson(<<CurDir, B_pipeline, B_json(100)>>),
       Readable(<<CurDir, B_json(101)>>,
                Document(B_bad, <<JStr(B_bad)>>)),
       Readable(<<CurDir, B_E_acute, B_json(102)>>,
                Document(B_bad, <<JStr(B_bad)>>)) >>

\* scanner::find_json_files: the .json files under the root, as an iterator.
\* The project holds up to MaxFiles of the files of Tree.
find_json_files == UpTo(Tree, MaxFiles)

\* ------------------------------------------------------------------------
\* State
\* ------------------------------------------------------------------------
VARIABLES
    call,       \* the call under examination: the arguments of check_rule,
                \* or of main (with its position); None when run is called
    ret,        \* None, or Some(what call returned: a Vec<Violation>, an exit code)
    stderr,     \* the warnings printed so far, in order
    config,     \* run: the ruleset
    files,      \* run: the artifacts the scanner yields, in iterator order
    next,       \* run: position of the par_bridge iterator in files
    task,       \* run: per worker, the closure invocation it executes
    filtered,   \* run: per artifact, the ids of the rules that passed the filter
    results,    \* run: the FileResults collected so far
    returned    \* run: TRUE once run has returned Ok(results)

run_vars == <<config, files, next, task, filtered, results, returned>>
vars == <<call, ret, stderr, config, files, next, task, filtered, results, returned>>

Idle == [pc |-> "idle", item |-> 0]

\* ------------------------------------------------------------------------
\* check_rule called on its own, as the unit tests of engine/mod.rs do
\* ------------------------------------------------------------------------
InitRule ==
    /\ call \in {[rule |-> r, root |-> d, file_path |-> UnitPath] :
                    r \in UnitRules, d \in UnitDocuments}
    /\ ret = None
    /\ stderr = <<>>
    /\ config = <<>>
    /\ files = <<>>
    /\ next = 1
    /\ task = [w \in Workers |-> Idle]
    /\ filtered = <<>>
    /\ results = <<>>
    /\ returned = FALSE

CallCheckRule ==
    /\ ret = None
    /\ \E r \in {check_rule(call.rule, call.root, call.file_path)} :
          /\ ret' = Some(r.ret)
          /\ stderr' = stderr \o r.log
    /\ UNCHANGED <<call, run_vars>>

NextRule == CallCheckRule

SpecRule == InitRule /\ [][NextRule]_vars

\* ------------------------------------------------------------------------
\* engine::run
\* ------------------------------------------------------------------------
WarnOpen(file_str) == [w |-> "Could not open file", what |-> file_str]
WarnJson(file_str) == [w |-> "Could not parse JSON from file", what |-> file_str]

FileResult(file_str, violations) == [file |-> file_str, violations |-> violations]

Init ==
    /\ call = None
    /\ ret = None
    /\ stderr = <<>>
    /\ config \in Configs
    /\ files \in find_json_files
    /\ next = 1
    /\ task = [w \in Workers |-> Idle]
    /\ filtered = [i \in 1..Len(files) |-> None]
    /\ results = <<>>
    /\ returned = FALSE

\* par_bridge: a worker pulls the next item off the shared iterator.
Take(w) ==
    /\ ~returned
    /\ task[w].pc = "idle"
    /\ next <= Len(files)
    /\ task' = [task EXCEPT ![w] = [pc |-> "open", item |-> next]]
    /\ next' = next + 1
    /\ UNCHANGED <<call, ret, stderr, config, files, filtered, results, returned>>

\* File::open; on Err the closure returns an empty FileResult.
Open(w) ==
    /\ task[w].pc = "open"
    /\ LET art == files[task[w].item]
           file_str == to_string_lossy(art.path)
       IN IF art.open = "Ok"
          THEN /\ task' = [task EXCEPT ![w].pc = "parse"]
               /\ UNCHANGED <<stderr, results>>
          ELSE /\ stderr' = Append(stderr, WarnOpen(file_str))
               /\ results' = Append(results, FileResult(file_str, <<>>))
               /\ task' = [task EXCEPT ![w] = Idle]
    /\ UNCHANGED <<call, ret, config, files, next, filtered, returned>>

\* Mutant of Parse: a document that is not JSON makes run return at once.
ParseAborts(w) ==
    /\ task[w].pc = "parse"
    /\ LET art == files[task[w].item]
           file_str == to_string_lossy(art.path)
       IN IF art.json.t = "Ok"
          THEN /\ task' = [task EXCEPT ![w].pc = "rules"]
               /\ UNCHANGED <<stderr, results, returned>>
          ELSE /\ stderr' = Append(stderr, WarnJson(file_str))
               /\ returned' = TRUE
               /\ task' = [task EXCEPT ![w] = Idle]
               /\ UNCHANGED results
    /\ UNCHANGED <<call, ret, config, files, next, filtered>>

\* serde_json::from_reader; on Err the closure returns an empty FileResult.
Parse(w) ==
    /\ task[w].pc = "parse"
    /\ LET art == files[task[w].item]
           file_str == to_string_lossy(art.path)
       IN IF art.json.t = "Ok"
          THEN /\ task' = [task EXCEPT ![w].pc = "rules"]
               /\ UNCHANGED <<stderr, results>>
          ELSE /\ stderr' = Append(stderr, WarnJson(file_str))
               /\ results' = Append(results, FileResult(file_str, <<>>))
               /\ task' = [task EXCEPT ![w] = Idle]
    /\ UNCHANGED <<call, ret, config, files, next, filtered, returned>>

\* config.rules.iter().filter(matches_asset_type)
FilterRules(rules, file_path) ==
    SelectSeq(rules, LAMBDA rule : matches_asset_type(rule.asset, file_path))

\* Mutant of FlatMapRules: the rules are evaluated last rule first.
RECURSIVE FlatMapRulesReversed(_, _, _)
FlatMapRulesReversed(rules, json, file_path) ==
    IF rules = <<>> THEN <<>>
    ELSE FlatMapRulesReversed(Tail(rules), json, file_path)
         \o CheckRuleEvents(Head(rules), json, file_path)

\* .flat_map(check_rule) over the filtered rules, in order
RECURSIVE FlatMapRules(_, _, _)
FlatMapRules(rules, json, file_path) ==
    IF rules = <<>> THEN <<>>
    ELSE CheckRuleEvents(Head(rules), json, file_path)
         \o FlatMapRules(Tail(rules), json, file_path)

\* Mutant of Rules: the first artifact with a Violation ends the iteration.
RulesStopOnViolation(w) ==
    /\ task[w].pc = "rules"
    /\ \E art \in {files[task[w].item]} :
       \E selected \in {FilterRules(config, art.path)} :
       \E events \in {FlatMapRules(selected, art.json.v, art.path)} :
          /\ filtered' = [filtered EXCEPT ![task[w].item] =
                             Some([i \in 1..Len(selected) |-> selected[i].id])]
          /\ stderr' = stderr \o Warnings(events)
          /\ results' = Append(results,
                               FileResult(to_string_lossy(art.path), Violations(events)))
          /\ next' = IF Violations(events) # <<>> THEN Len(files) + 1 ELSE next
    /\ task' = [task EXCEPT ![w] = Idle]
    /\ UNCHANGED <<call, ret, config, files, returned>>

\* The rules of the ruleset evaluated against the parsed document.
Rules(w) ==
    /\ task[w].pc = "rules"
    /\ \E art \in {files[task[w].item]} :
       \E selected \in {FilterRules(config, art.path)} :
       \E events \in {FlatMapRules(selected, art.json.v, art.path)} :
          /\ filtered' = [filtered EXCEPT ![task[w].item] =
                             Some([i \in 1..Len(selected) |-> selected[i].id])]
          /\ stderr' = stderr \o Warnings(events)
          /\ results' = Append(results,
                               FileResult(to_string_lossy(art.path), Violations(events)))
    /\ task' = [task EXCEPT ![w] = Idle]
    /\ UNCHANGED <<call, ret, config, files, next, returned>>

\* collect() completes once the iterator is drained and every closure returned.
Return ==
    /\ ~returned
    /\ next > Len(files)
    /\ \A w \in Workers : task[w].pc = "idle"
    /\ returned' = TRUE
    /\ UNCHANGED <<call, ret, stderr, config, files, next, task, filtered, results>>

WorkerStep(w) == Take(w) \/ Open(w) \/ Parse(w) \/ Rules(w)

Next == (\E w \in Workers : WorkerStep(w)) \/ Return

Spec == Init /\ [][Next]_vars

\* The worker threads of the pool keep running until run returns; checked
\* for the ruleset made of the first MaxRules rules.
InitFair == Init /\ config = SubSeq(RunRules, 1, MaxRules)
FairSpec == InitFair /\ [][Next]_vars /\ (\A w \in Workers : WF_vars(WorkerStep(w))) /\ WF_vars(Return)

\* ------------------------------------------------------------------------
\* main: load the rule file, run the engine, report, exit
\* ------------------------------------------------------------------------
\* The rule file named by --config, as the file system presents it.
Missing == [exists |-> FALSE]
Unopenable == [exists |-> TRUE, open |-> "Err"]
Unparseable == [exists |-> TRUE, open |-> "Ok", yaml |-> [t |-> "Err"]]
RuleFile(c) == [exists |-> TRUE, open |-> "Ok", yaml |-> [t |-> "Ok", v |-> c]]

RuleFiles == {Missing, Unopenable, Unparseable} \cup {RuleFile(c) : c \in Configs}

\* Config::load: File::open, then serde_yaml::from_reader; either may fail.
ConfigLoad(path) ==
    IF path.open = "Err" THEN [t |-> "Err"]
    ELSE IF path.yaml.t = "Err" THEN [t |-> "Err"]
    ELSE [t |-> "Ok", v |-> path.yaml.v]

ErrNotFound == [w |-> "Error: Config file not found", what |-> "config"]
ErrLoad == [w |-> "Error: Failed to load configuration", what |-> "config"]

\* results.iter().any(|r| r.violations.iter().any(|v| v.severity == Error))
has_errors(res) ==
    \E k \in 1..Len(res) : \E n \in 1..Len(res[k].violations) :
        res[k].violations[n].severity = "Error"

InitMain ==
    /\ call \in {[pc |-> "start", config |-> cf, project_path |-> tree] :
                    cf \in RuleFiles, tree \in find_json_files}
    /\ ret = None
    /\ stderr = <<>>
    /\ config = <<>>
    /\ files = <<>>
    /\ next = 1
    /\ task = [w \in Workers |-> Idle]
    /\ filtered = <<>>
    /\ results = <<>>
    /\ returned = FALSE

\* !args.config.exists(): the error goes to stdout under --json, to stderr
\* otherwise, and the process exits with code 1.
MainConfigMissing ==
    /\ call.pc = "start"
    /\ ~call.config.exists
    /\ \E json \in BOOLEAN :
          stderr' = IF json THEN stderr ELSE Append(stderr, ErrNotFound)
    /\ ret' = Some(1)
    /\ call' = [call EXCEPT !.pc = "exit"]
    /\ UNCHANGED run_vars

\* Config::load(..)?, then the entry of engine::run, which calls the scanner.
\* An Err returned from main is printed by the runtime; the exit code is 1.
MainLoad ==
    /\ call.pc = "start"
    /\ call.config.exists
    /\ \E loaded \in {ConfigLoad(call.config)} :
          IF loaded.t = "Ok"
          THEN /\ config' = loaded.v
               /\ files' = call.project_path
               /\ filtered' = [i \in 1..Len(call.project_path) |-> None]
               /\ call' = [call EXCEPT !.pc = "run"]
               /\ UNCHANGED <<ret, stderr, next, task, results, returned>>
          ELSE /\ stderr' = Append(stderr, ErrLoad)
               /\ ret' = Some(1)
               /\ call' = [call EXCEPT !.pc = "exit"]
               /\ UNCHANGED run_vars

\* engine::run is executing.
MainRun == call.pc = "run" /\ Next

\* Mutant of MainExit: a Violation of any severity makes the exit code 1.
MainExitAnySeverity ==
    /\ call.pc = "run"
    /\ returned
    /\ ret' = Some(IF \E k \in 1..Len(results) : results[k].violations # <<>>
                   THEN 1 ELSE 0)
    /\ call' = [call EXCEPT !.pc = "exit"]
    /\ UNCHANGED <<stderr, run_vars>>

\* After the report: exit(1) if has_errors, else main returns Ok(()).
MainExit ==
    /\ call.pc = "run"
    /\ returned
    /\ ret' = Some(IF has_errors(results) THEN 1 ELSE 0)
    /\ call' = [call EXCEPT !.pc = "exit"]
    /\ UNCHANGED <<stderr, run_vars>>

NextMain == MainConfigMissing \/ MainLoad \/ MainRun \/ MainExit

SpecMain == InitMain /\ [][NextMain]_vars

\* ------------------------------------------------------------------------
\* check_guard called on its own, as the unit tests of engine/mod.rs call
\* the guards
\* ------------------------------------------------------------------------
MaxChars == 3      \* most chars of a string handed to StringLength
MaxOffset == 2     \* the largest integer handed to a guard is 2^53 + MaxOffset

\* str as UTF-8: one byte below U+0080, two bytes below U+0800.
RECURSIVE Utf8(_)
Utf8(chars) ==
    IF chars = <<>> THEN <<>>
    ELSE (IF Head(chars) < 128 THEN <<Head(chars)>>
          ELSE <<192 + (Head(chars) \div 64), 128 + (Head(chars) % 64)>>)
         \o Utf8(Tail(chars))

Chars == {97, 233}                                          \* a, e-acute
CharSeqs == SeqsUpTo(Chars, MaxChars)

B_HTTP == <<72, 84, 84, 80>>                                \* HTTP
B_HTTPS == <<72, 84, 84, 80, 83>>                           \* HTTPS
B_Prod == <<80, 114, 111, 100>>                             \* Prod
B_prod == <<112, 114, 111, 100>>                            \* prod
B_Allow == <<65, 108, 108, 111, 119>>                       \* Allow

\* A params object with each of the two keys absent or drawn from a set.
Optional(key, S) == {<<>>} \cup {[k \in {key} |-> x] : x \in S}
Params2(k1, S1, k2, S2) ==
    {JObj(a @@ b) : a \in Optional(k1, S1), b \in Optional(k2, S2)}
Params3(k1, S1, k2, S2, k3, S3) ==
    {JObj(a @@ b @@ c) :
        a \in Optional(k1, S1), b \in Optional(k2, S2), c \in Optional(k3, S3)}

BigInts == {JBig(k) : k \in 0..MaxOffset}
RangeValues == {JInt(-1), JInt(9), JInt(10), JInt(20), JInt(21), JFloat(21, 2), JNull}
                  \cup BigInts
RangeBounds == {JInt(10), JInt(20), JFloat(21, 2), JStr(B_bad)} \cup BigInts
CountValues == {JArr(a) : a \in SeqsUpTo({JNull}, MaxItems)} \cup {JNull}
CountBounds == {JInt(0), JInt(1), JInt(2), JInt(-1), JFloat(3, 2), JBig(0), JStr(B_bad)}
LengthValues == {JStr(Utf8(c)) : c \in CharSeqs} \cup {JInt(3)}
LengthBounds == {JInt(1), JInt(2), JInt(3), JInt(-1), JFloat(3, 2), JBig(0), JStr(B_bad)}

AllowedNodes ==
    {JStr(B_HTTP), JStr(B_HTTPS), JStr(B_Prod), JStr(B_prod),
     JStr(B_e_acute), JStr(B_E_acute), JInt(3)}
AllowedLists ==
    {JArr(<<JStr(B_HTTP)>>), JArr(<<JStr(B_Prod), JInt(3)>>),
     JArr(<<JStr(B_HTTP), JStr(B_E_acute)>>), JArr(<<>>)}
AllowedParams ==
    Params3("values", AllowedLists,
            "mode", {JStr(B_Allow), JStr(B_Deny)},
            "case_sensitive", {JBool(TRUE), JBool(FALSE)})

GuardCalls ==
    {[node |-> n, guard |-> "Range", params |-> p] :
        n \in RangeValues, p \in Params2("min", RangeBounds, "max", RangeBounds)}
    \cup {[node |-> n, guard |-> "Count", params |-> p] :
        n \in CountValues, p \in Params2("min", CountBounds, "max", CountBounds)}
    \cup {[node |-> n, guard |-> "StringLength", params |-> p] :
        n \in LengthValues, p \in Params2("min", LengthBounds, "max", LengthBounds)}
    \cup {[node |-> n, guard |-> "AllowedValues", params |-> p] :
        n \in AllowedNodes, p \in AllowedParams}

InitGuard ==
    /\ call \in GuardCalls
    /\ ret = None
    /\ stderr = <<>>
    /\ config = <<>>
    /\ files = <<>>
    /\ next = 1
    /\ task = [w \in Workers |-> Idle]
    /\ filtered = <<>>
    /\ results = <<>>
    /\ returned = FALSE

CallCheckGuard ==
    /\ ret = None
    /\ \E r \in {check_guard(call.node, call.guard, call.params)} :
          /\ ret' = Some(r.ret)
          /\ stderr' = stderr \o r.log
    /\ UNCHANGED <<call, run_vars>>

NextGuard == CallCheckGuard

SpecGuard == InitGuard /\ [][NextGuard]_vars

\* ========================================================================
\* Properties of check_rule (SpecRule)
\* ========================================================================
Called == ret.t = "Some"
HasWhen == call.rule.when.t = "Some"
When == call.rule.when.v
Main == call.rule.validate

WhenParsed == JsonPathParse(When.target)
WhenNodes == IF WhenParsed.t = "Ok" THEN JsonPathQuery(WhenParsed.p, call.root) ELSE <<>>
WhenPasses(i) == check_guard(WhenNodes[i], When.guard, When.params).ret
WhenMet == WhenNodes # <<>> /\ \A i \in 1..Len(WhenNodes) : WhenPasses(i)

MainParsed == JsonPathParse(Main.target)
MainNodes == IF MainParsed.t = "Ok" THEN JsonPathQuery(MainParsed.p, call.root) ELSE <<>>
MainFailing ==
    SelectSeq(MainNodes, LAMBDA n : ~check_guard(n, Main.guard, Main.params).ret)

CountIn(seq, Test(_)) == Cardinality({i \in 1..Len(seq) : Test(seq[i])})
JsonPathWarnings == CountIn(stderr, LAMBDA w : w.w = "Could not parse JSONPath")
UnknownGuardWarnings == CountIn(stderr, LAMBDA w : w.w = "Unknown guard")

\* The rule was skipped: nothing returned, the main target not even parsed.
Skipped == ret.v = <<>> /\ JsonPathWarnings = 0
\* The main check ran: one Violation per failing node, or the parse warning.
MainEvaluated ==
    /\ Len(ret.v) = Len(MainFailing)
    /\ JsonPathWarnings = IF MainParsed.t = "Err" THEN 1 ELSE 0

\* C1: a rule with a precondition whose target path does not parse or matches
\* no node returns zero Violations, whatever the main check would find.
C1_UnresolvedPreconditionSkips ==
    (Called /\ HasWhen /\ (WhenParsed.t = "Err" \/ WhenNodes = <<>>)) => ret.v = <<>>

\* C1 witness: the precondition target matches nothing, the main check has
\* failing nodes, and the call returned no Violation.
C1_Witness ==
    /\ Called /\ HasWhen
    /\ WhenParsed.t = "Ok" /\ WhenNodes = <<>>
    /\ MainFailing # <<>>
    /\ ret.v = <<>>

\* C2: with at least one matched node the precondition is met iff the guard
\* accepts every matched node; one rejected node skips the rule, all accepted
\* (or no precondition at all) lets the main check run.
C2_PreconditionIsConjunction ==
    Called =>
        /\ (HasWhen /\ WhenNodes # <<>> /\ (\E i \in 1..Len(WhenNodes) : ~WhenPasses(i)))
              => Skipped
        /\ (HasWhen /\ WhenNodes # <<>> /\ (\A i \in 1..Len(WhenNodes) : WhenPasses(i)))
              => MainEvaluated
        /\ ~HasWhen => MainEvaluated

\* C2 witness: two nodes matched by the precondition, the first accepted and
\* the second rejected, a main check that would fail, and no Violation.
C2_Witness ==
    /\ Called /\ HasWhen
    /\ Len(WhenNodes) = 2 /\ WhenPasses(1) /\ ~WhenPasses(2)
    /\ MainFailing # <<>>
    /\ ret.v = <<>>

UnitPathStr ==
    <<46, 47, 112, 105, 112, 101, 108, 105, 110, 101, 47, 97, 46, 106, 115, 111, 110>>

\* C3: with the precondition absent or met, check_rule returns exactly one
\* Violation per failing node of the main target, in match order, each with
\* the rule's id, the artifact path, the description or "Rule violation", the
\* severity and a present actual value; no located node, no Violation.
C3_OneViolationPerFailingNode ==
    (Called /\ (~HasWhen \/ WhenMet)) =>
        /\ Len(ret.v) = Len(MainFailing)
        /\ \A k \in 1..Len(ret.v) :
              /\ ret.v[k].rule_id = call.rule.id
              /\ ret.v[k].file = UnitPathStr
              /\ ret.v[k].message = IF call.rule.description.t = "Some"
                                    THEN call.rule.description.v
                                    ELSE "Rule violation"
              /\ ret.v[k].severity = call.rule.severity
              /\ ret.v[k].actual_value.t = "Some"
              /\ ret.v[k].actual_value.v = format_actual_value(Main.guard, MainFailing[k])
        /\ MainNodes = <<>> => ret.v = <<>>

\* C3 witness: a met precondition and two Violations with different actual
\* values, the first one for the first node.
C3_Witness ==
    /\ Called /\ HasWhen /\ WhenMet
    /\ Len(MainNodes) = 2 /\ Len(ret.v) = 2
    /\ ret.v[1].actual_value # ret.v[2].actual_value
    /\ ret.v[1].actual_value.v = ValueToString(MainNodes[1])

KnownGuards ==
    {"PatternMatch", "AllowedValues", "Exists", "Range", "Count", "StringLength"}

\* C8: a guard name outside the six known ones passes every node: no
\* Violation as a main check, met as a precondition with matched nodes, and
\* one warning per invocation of the guard.
C8_UnknownGuardFailsOpen ==
    Called =>
        /\ Main.guard \notin KnownGuards => ret.v = <<>>
        /\ (HasWhen /\ When.guard \notin KnownGuards /\ WhenNodes # <<>>) => MainEvaluated
        /\ UnknownGuardWarnings =
              (IF HasWhen /\ When.guard \notin KnownGuards THEN Len(WhenNodes) ELSE 0)
            + (IF (~HasWhen \/ WhenMet) /\ Main.guard \notin KnownGuards
               THEN Len(MainNodes) ELSE 0)

\* C8 witness: an unknown guard as precondition on two nodes and another one
\* as main check, no Violation and one warning per node.
C8_Witness ==
    /\ Called /\ HasWhen
    /\ When.guard \notin KnownGuards /\ Len(WhenNodes) = 2
    /\ Main.guard \notin KnownGuards /\ Len(MainNodes) = 2
    /\ ret.v = <<>>
    /\ UnknownGuardWarnings = 4

\* The value is not of the JSON type the guard works on.
TypeMismatch(guard, node) ==
    CASE guard \in {"PatternMatch", "AllowedValues", "StringLength"} -> node.t # "string"
      [] guard = "Range" -> node.t # "number"
      [] guard = "Count" -> node.t # "array"
      [] OTHER -> FALSE

MainMismatched == {i \in 1..Len(MainNodes) : TypeMismatch(Main.guard, MainNodes[i])}

\* C9: for every guard but Exists a value of the wrong JSON type fails the
\* guard whatever the parameters: as main check each such node gets a
\* Violation, as precondition it skips the rule.
C9_TypeMismatchFailsClosed ==
    Called =>
        /\ (~HasWhen \/ WhenMet) =>
              /\ Len(ret.v) >= Cardinality(MainMismatched)
              /\ \A i \in MainMismatched :
                    \E k \in 1..Len(ret.v) :
                        ret.v[k].actual_value =
                            Some(format_actual_value(Main.guard, MainNodes[i]))
              /\ MainMismatched = 1..Len(MainNodes) => Len(ret.v) = Len(MainNodes)
        /\ (HasWhen /\ \E i \in 1..Len(WhenNodes) : TypeMismatch(When.guard, WhenNodes[i]))
              => ret.v = <<>>

\* C9 witness: AllowedValues in Deny mode as main check on a number, which
\* gets its Violation.
C9_Witness ==
    /\ Called /\ ~HasWhen
    /\ Main.guard = "AllowedValues"
    /\ get_str(Main.params, "mode") = Some(B_Deny)
    /\ MainNodes = <<JInt(3)>>
    /\ Len(ret.v) = 1

\* ========================================================================
\* Properties of run (Spec, FairSpec)
\* ========================================================================
FileStr(i) == to_string_lossy(files[i].path)
ResultsOf(i) == {k \in 1..Len(results) : results[k].file = FileStr(i)}
Good(art) == art.open = "Ok" /\ art.json.t = "Ok"

\* One artifact evaluated on its own, rule after rule.
Sequential(art) ==
    IF Good(art)
    THEN Violations(FlatMapRules(FilterRules(config, art.path), art.json.v, art.path))
    ELSE <<>>

RunComplete ==
    /\ returned
    /\ Len(results) = Len(files)
    /\ \A i \in 1..Len(files) :
          /\ Cardinality(ResultsOf(i)) = 1
          /\ \A k \in ResultsOf(i) : results[k].violations = Sequential(files[i])

\* C4: whatever the interleaving of the workers, run returns, and it returns
\* exactly one FileResult per discovered artifact, each equal to the
\* sequential evaluation of that artifact alone.
C4_EveryArtifactExactlyOnce == <>[]RunComplete

\* C4 witness: run returned MaxFiles FileResults, not in discovery order, with
\* a Violation in the first one collected.
C4_Witness ==
    /\ returned
    /\ Len(files) = MaxFiles /\ Len(results) = MaxFiles
    /\ results[1].file # FileStr(1)
    /\ results[1].violations # <<>>

Bad(i) == ~Good(files[i])
FileWarnings(i) ==
    CountIn(stderr, LAMBDA w : /\ w.w = IF files[i].open = "Err"
                                        THEN "Could not open file"
                                        ELSE "Could not parse JSON from file"
                               /\ w.what = FileStr(i))

\* C5: an artifact that cannot be opened or is not JSON gets a FileResult
\* with its path and no Violation, and one warning; run still returns a
\* FileResult for every artifact, the others as if evaluated alone.
C5_BadArtifactIsolated ==
    /\ \A i \in 1..Len(files) : \A k \in ResultsOf(i) :
          Bad(i) => results[k].violations = <<>> /\ FileWarnings(i) = 1
    /\ returned =>
          /\ Len(results) = Len(files)
          /\ \A i \in 1..Len(files) :
                /\ Cardinality(ResultsOf(i)) = 1
                /\ Bad(i) => FileWarnings(i) = 1
                /\ ~Bad(i) => \A k \in ResultsOf(i) :
                                 results[k].violations = Sequential(files[i])

\* C5 witness: run returned; a bad artifact was collected first and a good
\* one with Violations after it.
C5_Witness ==
    /\ returned
    /\ \E i, j \in 1..Len(files) :
          /\ Bad(i) /\ ~Bad(j)
          /\ results[1].file = FileStr(i)
          /\ \E k \in ResultsOf(j) : k > 1 /\ results[k].violations # <<>>

RulePos(id) == CHOOSE j \in 1..Len(config) : config[j].id = id
OfRule(violations, j) == SelectSeq(violations, LAMBDA v : v.rule_id = config[j].id)

\* C6: in every FileResult the Violations are those of the applicable rules,
\* rule after rule in declaration order, each rule's Violations together and
\* in match order, under every schedule.
C6_DeclarationOrder ==
    \A i \in 1..Len(files) : \A k \in ResultsOf(i) :
        LET vs == results[k].violations
        IN /\ \A a, b \in 1..Len(vs) :
                 a < b => RulePos(vs[a].rule_id) <= RulePos(vs[b].rule_id)
           /\ Good(files[i]) =>
                 \A j \in 1..Len(config) :
                    OfRule(vs, j) =
                       IF matches_asset_type(config[j].asset, files[i].path)
                       THEN check_rule(config[j], files[i].json.v, files[i].path).ret
                       ELSE <<>>

\* C6 witness: a FileResult collected out of discovery order whose Violations
\* start with those of rule r1, declared first, and end with those of r2.
C6_Witness ==
    /\ Len(config) = 2 /\ config[1].id = "r1" /\ config[2].id = "r2"
    /\ \E k \in 1..Len(results) :
          /\ k > 1
          /\ results[k].file = FileStr(1)
          /\ Len(results[k].violations) = 4
          /\ results[k].violations[1].rule_id = "r1"
          /\ results[k].violations[4].rule_id = "r2"

\* The name of the folder that holds the artifact, if it has one.
FolderOf(path) ==
    IF Len(path) >= 2 /\ path[Len(path) - 1] \notin {CurDir, ParentDir}
    THEN Some(path[Len(path) - 1]) ELSE None
AssetNames(matcher) ==
    IF matcher.t = "Single" THEN {matcher.s}
    ELSE {matcher.list[i] : i \in 1..Len(matcher.list)}

\* Equal up to the case of the ASCII letters A-Z, a-z.
SameAsciiLetter(x, y) == \E u \in 65..90 : {x, y} = {u, u + 32}
AsciiCaseEq(a, b) ==
    /\ Len(a) = Len(b)
    /\ \A i \in 1..Len(a) : a[i] = b[i] \/ SameAsciiLetter(a[i], b[i])

\* Equal up to the case of letters, ASCII or not: lower-casing maps A-Z and
\* the upper-case letters of Latin-1 (U+00C0..U+00DE but U+00D7, in UTF-8
\* 0xC3 0x80..0x9E) to their lower-case letters.
ToLower(s) ==
    [i \in 1..Len(s) |->
        IF s[i] \in 65..90 THEN s[i] + 32
        ELSE IF i > 1 /\ s[i - 1] = 195 /\ s[i] \in (128..158) \ {151} THEN s[i] + 32
        ELSE s[i]]
CaseEq(a, b) == ToLower(a) = ToLower(b)

PassedFilter(i, j) == \E n \in 1..Len(filtered[i].v) : filtered[i].v[n] = config[j].id
Contributes(i, j) ==
    \E k \in ResultsOf(i) : \E n \in 1..Len(results[k].violations) :
        results[k].violations[n].rule_id = config[j].id

AppliesIff(i, j, Eq(_, _)) ==
    LET folder == FolderOf(files[i].path)
        applies == /\ folder.t = "Some"
                   /\ \E name \in AssetNames(config[j].asset) : Eq(folder.v, name)
    IN /\ filtered[i].t = "Some" => (PassedFilter(i, j) <=> applies)
       /\ ~applies => ~Contributes(i, j)

\* C7 as stated: a rule applies iff the folder name equals one of the rule's
\* names ignoring case.
C7_Original_IgnoringCase ==
    \A i \in 1..Len(files) : \A j \in 1..Len(config) : AppliesIff(i, j, CaseEq)

\* C7 amended: a rule applies to an artifact iff the name of its containing
\* folder equals the Single name or one name of the List ignoring the case of
\* ASCII letters only; a rule that does not apply contributes no Violation,
\* and an artifact without a containing folder name matches no rule.
C7_IgnoringAsciiCase ==
    \A i \in 1..Len(files) : \A j \in 1..Len(config) : AppliesIff(i, j, AsciiCaseEq)

\* C7 witness: one artifact in folder DATASET passed the filter of the rule
\* for "dataset", and the artifact in the folder named by an upper-case
\* non-ASCII letter did not pass the filter of the rule naming it in lower
\* case.
C7_Witness ==
    /\ \E i \in 1..Len(files) : \E j \in 1..Len(config) :
          /\ FolderOf(files[i].path) = Some(B_DATASET)
          /\ filtered[i].t = "Some" /\ PassedFilter(i, j) /\ Contributes(i, j)
    /\ \E i \in 1..Len(files) : \E j \in 1..Len(config) :
          /\ FolderOf(files[i].path) = Some(B_E_acute)
          /\ config[j].asset = Single(B_e_acute)
          /\ filtered[i].t = "Some" /\ ~PassedFilter(i, j)

WhenErr(j) ==
    config[j].when.t = "Some" /\ JsonPathParse(config[j].when.v.target).t = "Err"
MainErr(j) == JsonPathParse(config[j].validate.target).t = "Err"

\* The precondition of rule j is absent or met on the document of artifact i.
MainReached(i, j) ==
    \/ config[j].when.t = "None"
    \/ LET p == JsonPathParse(config[j].when.v.target)
           nodes == IF p.t = "Ok" THEN JsonPathQuery(p.p, files[i].json.v) ELSE <<>>
       IN /\ nodes # <<>>
          /\ \A n \in 1..Len(nodes) :
                check_guard(nodes[n], config[j].when.v.guard, config[j].when.v.params).ret

\* The artifacts evaluated so far to which rule j applied.
Evaluated(j) == {i \in 1..Len(files) : filtered[i].t = "Some" /\ PassedFilter(i, j)}
RuleWarnings(j) ==
    CountIn(stderr, LAMBDA w : w.w = "Could not parse JSONPath" /\ w.rule = config[j].id)

\* The rules other than j keep their Violations in the FileResult of i.
OthersUnchanged(i, j) ==
    \A k \in ResultsOf(i) : \A o \in 1..Len(config) :
        (o # j /\ PassedFilter(i, o)) =>
            OfRule(results[k].violations, o)
               = check_rule(config[o], files[i].json.v, files[i].path).ret

\* C10 as stated: a main or precondition target that does not parse logs a
\* warning, the rule contributes no Violation and the other rules keep theirs.
C10_Original_WarningOnEitherTarget ==
    \A j \in 1..Len(config) : \A i \in Evaluated(j) :
        (MainErr(j) \/ WhenErr(j)) =>
            /\ RuleWarnings(j) >= 1
            /\ ~Contributes(i, j)
            /\ OthersUnchanged(i, j)

\* C10 amended: a rule whose main or precondition target does not parse
\* contributes no Violation and leaves the other rules' Violations unchanged;
\* the warning is logged once per artifact on which the main target is
\* parsed (precondition absent or met) and fails, and a precondition target
\* that does not parse logs nothing.
C10_WarningOnMainTargetOnly ==
    \A j \in 1..Len(config) :
        /\ \A i \in Evaluated(j) :
              (MainErr(j) \/ WhenErr(j)) => ~Contributes(i, j) /\ OthersUnchanged(i, j)
        /\ RuleWarnings(j) =
              Cardinality({i \in Evaluated(j) : MainErr(j) /\ MainReached(i, j)})

\* C10 witness: an artifact evaluated against a rule whose precondition target
\* does not parse, which logged nothing and contributed nothing, next to a
\* rule that contributed its Violations.
C10_Witness ==
    \E i \in 1..Len(files) : \E a, c \in 1..Len(config) :
        /\ WhenErr(a) /\ ~MainErr(a) /\ i \in Evaluated(a)
        /\ RuleWarnings(a) = 0 /\ ~Contributes(i, a)
        /\ ~MainErr(c) /\ ~WhenErr(c) /\ Contributes(i, c)

\* ========================================================================
\* Claims about main (SpecMain)
\* ========================================================================
Exited == ret.t = "Some"
ExitCode == ret.v
RuleFileLoads == call.config.exists /\ ConfigLoad(call.config).t = "Ok"

SeverityCount(sev) ==
    Cardinality({kn \in (1..Len(results)) \X (1..MaxItems + 1) :
                    /\ kn[2] <= Len(results[kn[1]].violations)
                    /\ results[kn[1]].violations[kn[2]].severity = sev})
ArtifactWarnings ==
    CountIn(stderr, LAMBDA w : w.w \notin {ErrNotFound.w, ErrLoad.w})

\* No artifact was taken off the scanner, opened, parsed or checked.
NoArtifactEvaluated ==
    /\ files = <<>>
    /\ next = 1
    /\ \A w \in Workers : task[w].pc = "idle"
    /\ results = <<>>
    /\ ArtifactWarnings = 0
    /\ Len(stderr) <= 1

\* C11: the process exits with code 1 iff some Violation of severity Error
\* exists in the FileResults or the rule file could not be loaded (missing,
\* or not readable as a ruleset), and with code 0 otherwise; when the rule
\* file cannot be loaded no artifact is ever evaluated; Warning-severity
\* Violations and warnings on stderr never make the exit code non-zero.
C11_ExitCode ==
    /\ ~RuleFileLoads => NoArtifactEvaluated
    /\ Exited =>
          /\ ExitCode \in {0, 1}
          /\ ExitCode = 1 <=> (SeverityCount("Error") > 0 \/ ~RuleFileLoads)
          /\ RuleFileLoads => returned /\ Len(results) = Len(files)

\* The process exited with code 0 although a Warning-severity Violation was
\* reported and a warning was printed on stderr.
C11_Witness ==
    /\ Exited
    /\ ExitCode = 0
    /\ SeverityCount("Warning") > 0
    /\ ArtifactWarnings > 0

\* ========================================================================
\* Claims about the guards (SpecGuard)
\* ========================================================================
Node == call.node
\* Exact order of two numbers hi * 2^53 + num/den.
ExactLe(a, b) ==
    IF a.hi # b.hi THEN a.hi < b.hi ELSE a.num * b.den <= b.num * a.den
Exactly(n) == [hi |-> 0, num |-> n, den |-> 1]

\* The quantity the guard measures on a correctly typed value.
CharsOf(s) == CHOOSE c \in CharSeqs : Utf8(c) = s
Measurable ==
    CASE call.guard = "Range" -> Node.t = "number"
      [] call.guard = "Count" -> Node.t = "array"
      [] call.guard = "StringLength" -> Node.t = "string"
      [] OTHER -> FALSE
Quantity ==
    CASE call.guard = "Range" -> [hi |-> Node.hi, num |-> Node.num, den |-> Node.den]
      [] call.guard = "Count" -> Exactly(Len(Node.a))
      [] call.guard = "StringLength" -> Exactly(Len(CharsOf(Node.s)))

\* A bound is supplied when the key holds a value of the type the guard
\* takes: a number for Range, a non-negative integer for the other two.
Supplied(key) ==
    /\ key \in DOMAIN call.params.o
    /\ call.params.o[key].t = "number"
    /\ call.guard # "Range" => call.params.o[key].repr = "PosInt"
Bound(key) ==
    [hi |-> call.params.o[key].hi, num |-> call.params.o[key].num,
     den |-> call.params.o[key].den]
WithinBounds ==
    /\ Supplied("min") => ExactLe(Bound("min"), Quantity)
    /\ Supplied("max") => ExactLe(Quantity, Bound("max"))

\* C12: Range, Count and StringLength, on a correctly typed value, return
\* true iff the measured quantity (the number, the element count, the
\* number of codepoints) is at least every supplied min and at most every
\* supplied max, bounds included; with no bound supplied the value passes.
C12_InclusiveBounds ==
    Called /\ Measurable => (ret.v <=> WithinBounds)

\* The parameters of AllowedValues, with their defaults.
ListGiven ==
    /\ call.guard = "AllowedValues"
    /\ Node.t = "string"
    /\ "values" \in DOMAIN call.params.o
    /\ call.params.o.values.t = "array"
ValuesList == call.params.o.values.a
ModeOf == IF "mode" \in DOMAIN call.params.o THEN call.params.o.mode.s ELSE B_Allow
CaseSensitive ==
    IF "case_sensitive" \in DOMAIN call.params.o
    THEN call.params.o.case_sensitive.b ELSE TRUE
Member(Eq(_, _)) ==
    \E i \in 1..Len(ValuesList) :
        /\ ValuesList[i].t = "string"
        /\ IF CaseSensitive THEN ValuesList[i].s = Node.s
           ELSE Eq(ValuesList[i].s, Node.s)
Verdict(Eq(_, _)) == IF ModeOf = B_Deny THEN ~Member(Eq) ELSE Member(Eq)

\* C13 as stated: on a string, AllowedValues returns membership in `values`
\* under Allow (the default) and its negation under Deny; membership is
\* exact equality when case_sensitive (the default), and equality ignoring
\* the case of letters otherwise.
C13_Original_IgnoringCase ==
    Called /\ ListGiven => (ret.v <=> Verdict(CaseEq))

\* C13 (amended): as above, but with case_sensitive false two strings are
\* equal when they differ only in the case of ASCII letters.
C13_AllowDenyMembership ==
    Called /\ ListGiven => (ret.v <=> Verdict(AsciiCaseEq))

\* Deny, case_sensitive false: "prod" is rejected because "Prod" is listed.
C13_Witness ==
    /\ Called /\ ListGiven
    /\ ModeOf = B_Deny /\ ~CaseSensitive
    /\ Node.s = B_prod
    /\ \E i \in 1..Len(ValuesList) :
          ValuesList[i].t = "string" /\ ValuesList[i].s = B_Prod
    /\ ret.v = FALSE

====
